---- MODULE Spec2Model ----
(***************************************************************************)
(* A model of habitica-party-podium (src/src/main.py): the window filter,  *)
(* the per-player damage and skill aggregation, the ranked markdown        *)
(* report, the podium section merge and the run of main().                 *)
(*                                                                         *)
(* Text is a sequence of characters.  The characters that decide what the  *)
(* code does are kept one by one ("#", " ", "\n", "\\", the letter "x");   *)
(* a stretch of text the code never looks into is one atom: the tail       *)
(* "[trophy] Podium" of the podium header, and in a run of main() a whole  *)
(* rendered line of the report.                                            *)
(***************************************************************************)
EXTENDS Integers, Sequences, FiniteSets, TLC

VARIABLES
    pc,               \* position of the run (or of the function applied)
    chat,             \* main: chat, the fetched list of messages
    since,            \* filter_recent_boss_messages: since = now - 7 days
    recent_messages,  \* main: recent_messages
    recent_skill_msgs,\* main: recent_skill_msgs
    now,              \* main: now
    user_stats,       \* main: user_stats, a dict in insertion order
    team_skills,      \* main: team_skills, a dict in insertion order
    seven_days_ago,   \* main: seven_days_ago
    top_n,            \* generate_markdown_report: top_n
    ranking,          \* generate_markdown_report: the three ranked lists
    full_podium_md,   \* main: full_podium_md (replace_podium_section: podium_md)
    group_info,       \* main: what fetch_group_info returned
    description,      \* main: description (replace_podium_section: description)
    new_description,  \* main: new_description
    merged_again,     \* replace_podium_section applied to its own result
    store,            \* the description Habitica holds for the party
    party_chat,       \* the chat Habitica holds for the party
    clock,            \* the wall clock, in ticks
    runs,             \* how many runs of main() have started
    log               \* what the run has done: warnings, merge, PUT, failures

vars == <<pc, chat, since, recent_messages, recent_skill_msgs, now, user_stats,
          team_skills, seven_days_ago, top_n, ranking, full_podium_md, group_info,
          description, new_description, merged_again, store, party_chat, clock,
          runs, log>>

(***************************************************************************)
(* Bounds of the model.                                                    *)
(***************************************************************************)
MaxDocPieces == 4
MaxBodyPieces == 2

Min(S) == CHOOSE m \in S : \A n \in S : m <= n

RECURSIVE Concat(_)
Concat(ss) == IF ss = <<>> THEN <<>> ELSE Head(ss) \o Concat(Tail(ss))

RECURSIVE SeqsUpTo(_, _)
SeqsUpTo(S, n) ==
    IF n = 0 THEN {<<>>}
    ELSE LET shorter == SeqsUpTo(S, n - 1)
         IN  shorter \cup {Append(s, x) : s \in {t \in shorter : Len(t) = n - 1}, x \in S}

(***************************************************************************)
(* Text: str.strip, and the pieces of the regular expression of            *)
(* replace_podium_section.                                                 *)
(***************************************************************************)
NL == "\n"
BS == "\\"

IsSpace(c) == c \in {" ", NL}

RECURSIVE LStrip(_)
LStrip(s) == IF s # <<>> /\ IsSpace(Head(s)) THEN LStrip(Tail(s)) ELSE s

RECURSIVE RStrip(_)
RStrip(s) ==
    IF s # <<>> /\ IsSpace(s[Len(s)]) THEN RStrip(SubSeq(s, 1, Len(s) - 1)) ELSE s

Strip(s) == RStrip(LStrip(s))

\* podium_header = "## [trophy] Podium"
podium_header == <<"#", "#", " ", "[trophy] Podium">>

\* the lookahead of the pattern: "\n## "
next_header == <<NL, "#", "#", " ">>

\* s has p at index i (1-based)
StartsAt(s, i, p) ==
    /\ i >= 1
    /\ i + Len(p) - 1 <= Len(s)
    /\ SubSeq(s, i, i + Len(p) - 1) = p

\* the leftmost index >= pos where the podium header starts, 0 if there is none
FindHeader(s, pos) ==
    LET at == {i \in pos..Len(s) : StartsAt(s, i, podium_header)}
    IN  IF at = {} THEN 0 ELSE Min(at)

\* [\s\S]*? followed by (?=\n## |\Z): the match that starts at i ends before
\* the first index e, past the header, that is the end of text or starts "\n## "
MatchEnd(s, i) ==
    Min({e \in (i + Len(podium_header))..(Len(s) + 1) :
            e = Len(s) + 1 \/ StartsAt(s, e, next_header)})

\* re.search(pattern, description)
Search(s) == FindHeader(s, 1) # 0

\* the replacement template of re.sub: a backslash escapes what follows.
\* "\\" gives one backslash, a backslash before an ASCII letter that is no
\* known escape raises re.error, and before anything else it is kept.
RECURSIVE TemplateRaises(_)
TemplateRaises(t) ==
    IF t = <<>> THEN FALSE
    ELSE IF Head(t) # BS THEN TemplateRaises(Tail(t))
    ELSE IF Len(t) = 1 THEN TRUE
    ELSE IF t[2] = "x" THEN TRUE
    ELSE TemplateRaises(Tail(Tail(t)))

RECURSIVE ExpandTemplate(_)
ExpandTemplate(t) ==
    IF t = <<>> THEN <<>>
    ELSE IF Head(t) # BS \/ Len(t) = 1 THEN <<Head(t)>> \o ExpandTemplate(Tail(t))
    ELSE IF t[2] = BS THEN <<BS>> \o ExpandTemplate(Tail(Tail(t)))
    ELSE <<BS, t[2]>> \o ExpandTemplate(Tail(Tail(t)))

\* re.sub(pattern, repl, s) from index pos on: every match, left to right
RECURSIVE SubFrom(_, _, _)
SubFrom(s, pos, repl) ==
    LET i == FindHeader(s, pos)
    IN  IF i = 0 THEN SubSeq(s, pos, Len(s))
        ELSE SubSeq(s, pos, i - 1) \o repl \o SubFrom(s, MatchEnd(s, i), repl)

\* new_podium_section = f"{podium_header}\n\n{podium_md.strip()}\n"
NewPodiumSection(md) == podium_header \o <<NL, NL>> \o Strip(md) \o <<NL>>

\* replace_podium_section raises re.error (a bad escape in the template)
ReplaceRaises(d, md) ==
    Search(Strip(d)) /\ TemplateRaises(NewPodiumSection(md))

\* replace_podium_section(description, podium_md), when it returns
ReplacePodiumSection(d, md) ==
    LET stripped == Strip(d)
        section == NewPodiumSection(md)
    IN  IF Search(stripped)
        THEN SubFrom(stripped, 1, ExpandTemplate(section))
        ELSE RStrip(stripped) \o <<NL, NL>> \o section \o <<NL>>

(***************************************************************************)
(* Time.  An instant is a number of clock ticks (datetime has microsecond  *)
(* resolution; a message's timestamp is in milliseconds).  The lengths of  *)
(* a millisecond, a minute and a day are scaled down.  The local time zone *)
(* has a constant offset, as the report's "UTC" stamp assumes.             *)
(***************************************************************************)
TicksPerMs == 2
MsPerMinute == 2
MinutesPerDay == 2
MaxClock == 3

TicksPerMinute == TicksPerMs * MsPerMinute
TicksPerDay == TicksPerMinute * MinutesPerDay

\* timedelta(days=days)
Timedelta(days) == days * TicksPerDay

\* days=7 in main
Days == 7

\* datetime.fromtimestamp(msg["timestamp"] / 1000)
FromTimestamp(ts) == ts * TicksPerMs

\* the clock readings of the model: the first leaves since = 0
FirstClock == Timedelta(Days)
LastClock == FirstClock + MaxClock

\* strftime('%Y-%m-%d') and strftime('%Y-%m-%d %H:%M')
StrfDay(t) == "day" \o ToString(t \div TicksPerDay)
StrfMinute(t) == "day" \o ToString(t \div TicksPerDay) \o " minute"
                    \o ToString((t % TicksPerDay) \div TicksPerMinute)

(***************************************************************************)
(* Messages.  A message is msg["info"] and msg["timestamp"]: user "" is a  *)
(* missing (or empty) user; a field is missing (None), a string that is    *)
(* no number (Str) or a number.                                            *)
(***************************************************************************)
None == <<"none", 0>>
Str == <<"str", 0>>
Num(n) == <<"num", n>>

IsNone(v) == v[1] = "none"
IsNumeric(v) == v[1] = "num"

Msg(type, user, ts, ud, bd, times) ==
    [type |-> type, user |-> user, timestamp |-> ts,
     userDamage |-> ud, bossDamage |-> bd, times |-> times]

(***************************************************************************)
(* Floats.  A float holds MantDig significant bits (53 in CPython, scaled  *)
(* down); a sum is rounded to the nearest float, a tie to the even one.    *)
(* The damages of the model are non-negative whole numbers.                *)
(***************************************************************************)
MantDig == 3

RECURSIVE Pow2(_)
Pow2(n) == IF n = 0 THEN 1 ELSE 2 * Pow2(n - 1)

\* how many low bits a whole number has beyond its MantDig significant ones
RECURSIVE ExtraBits(_)
ExtraBits(n) == IF n < Pow2(MantDig) THEN 0 ELSE 1 + ExtraBits(n \div 2)

RoundFloat(n) ==
    LET e == ExtraBits(n)
        q == n \div Pow2(e)
        r == n % Pow2(e)
    IN  IF e = 0 THEN n
        ELSE IF 2 * r > Pow2(e) \/ (2 * r = Pow2(e) /\ q % 2 = 1)
             THEN (q + 1) * Pow2(e)
             ELSE q * Pow2(e)

\* float(v) of a number
Float(v) == RoundFloat(v[2])

\* a += b on floats
FloatAdd(a, b) == RoundFloat(a + b)

(***************************************************************************)
(* filter_recent_boss_messages                                             *)
(***************************************************************************)
\* a filter that leaves out the message at the window start
IsRecentOfType_Strict(msg, type, start) ==
    msg.type = type /\ FromTimestamp(msg.timestamp) > start

\* the condition of the list comprehension
IsRecentOfType(msg, type, start) ==
    msg.type = type /\ FromTimestamp(msg.timestamp) >= start

RECURSIVE FilterType(_, _, _)
FilterType(msgs, type, start) ==
    IF msgs = <<>> THEN <<>>
    ELSE (IF IsRecentOfType(Head(msgs), type, start) THEN <<Head(msgs)>> ELSE <<>>)
         \o FilterType(Tail(msgs), type, start)

\* since = now - timedelta(days=days)
Since(t, days) == t - Timedelta(days)

FilterRecentBossMessages(msgs, t, days) ==
    FilterType(msgs, "boss_damage", Since(t, days))

(***************************************************************************)
(* aggregate_user_damage.  A dict is the sequence of its items in          *)
(* insertion order.                                                        *)
(***************************************************************************)
Keys(d) == {d[i].user : i \in DOMAIN d}

IndexOf(d, user) == CHOOSE i \in DOMAIN d : d[i].user = user

\* an aggregation that starts a user's totals again at every message
EnsureStats_Reset(stats, user) ==
    IF user \in Keys(stats)
    THEN [stats EXCEPT ![CHOOSE i \in DOMAIN stats : stats[i].user = user] =
            [user |-> user, userDamage |-> 0, bossDamage |-> 0]]
    ELSE Append(stats, [user |-> user, userDamage |-> 0, bossDamage |-> 0])

\* if user not in stats: stats[user] = {"userDamage": 0.0, "bossDamage": 0.0}
EnsureStats(stats, user) ==
    IF user \in Keys(stats) THEN stats
    ELSE Append(stats, [user |-> user, userDamage |-> 0, bossDamage |-> 0])

\* the try block: float() of a string that is no number raises ValueError,
\* which ends the handling of the message where it stands
AddDamage(entry, msg) ==
    LET ud == msg.userDamage
        bd == msg.bossDamage
        afterUser == IF IsNone(ud) THEN entry
                     ELSE [entry EXCEPT !.userDamage = FloatAdd(@, Float(ud))]
    IN  IF ~IsNone(ud) /\ ~IsNumeric(ud) THEN entry
        ELSE IF IsNone(bd) THEN afterUser
        ELSE IF ~IsNumeric(bd) THEN afterUser
        ELSE [afterUser EXCEPT !.bossDamage = FloatAdd(@, Float(bd))]

\* the body of the loop for one message
AggregateOne(stats, msg) ==
    IF msg.user = "" THEN stats
    ELSE LET s == EnsureStats(stats, msg.user)
             i == IndexOf(s, msg.user)
         IN  [s EXCEPT ![i] = AddDamage(s[i], msg)]

RECURSIVE AggregateFrom(_, _)
AggregateFrom(stats, msgs) ==
    IF msgs = <<>> THEN stats
    ELSE AggregateFrom(AggregateOne(stats, Head(msgs)), Tail(msgs))

AggregateUserDamage(msgs) == AggregateFrom(<<>>, msgs)

(***************************************************************************)
(* aggregate_team_skills                                                   *)
(***************************************************************************)
\* times = info.get("times", 1)
Times(msg) == IF IsNone(msg.times) THEN Num(1) ELSE msg.times

\* int(times) raises ValueError on a string that is no number
SkillsRaises(msgs) ==
    \E i \in DOMAIN msgs :
        /\ msgs[i].type = "spell_cast_party"
        /\ msgs[i].user # ""
        /\ ~IsNumeric(Times(msgs[i]))

SkillsOne(skills, msg) ==
    IF msg.type # "spell_cast_party" \/ msg.user = "" THEN skills
    ELSE LET s == IF msg.user \in Keys(skills) THEN skills
                  ELSE Append(skills, [user |-> msg.user, count |-> 0])
             i == IndexOf(s, msg.user)
         IN  [s EXCEPT ![i].count = @ + Times(msg)[2]]

RECURSIVE SkillsFrom(_, _)
SkillsFrom(skills, msgs) ==
    IF msgs = <<>> THEN skills
    ELSE SkillsFrom(SkillsOne(skills, Head(msgs)), Tail(msgs))

AggregateTeamSkills(msgs) == SkillsFrom(<<>>, msgs)

(***************************************************************************)
(* generate_markdown_report                                                *)
(***************************************************************************)
\* a sort that puts an item before the items with an equal key
InsertDesc_Unstable(sorted, x, field) ==
    LET n == Cardinality({i \in DOMAIN sorted : sorted[i][field] > x[field]})
    IN  SubSeq(sorted, 1, n) \o <<x>> \o SubSeq(sorted, n + 1, Len(sorted))

\* sorted(..., reverse=True) is stable: an item goes after the items whose
\* key is greater than or equal to its own
InsertDesc(sorted, x, field) ==
    LET n == Cardinality({i \in DOMAIN sorted : sorted[i][field] >= x[field]})
    IN  SubSeq(sorted, 1, n) \o <<x>> \o SubSeq(sorted, n + 1, Len(sorted))

RECURSIVE SortInto(_, _, _)
SortInto(sorted, items, field) ==
    IF items = <<>> THEN sorted
    ELSE SortInto(InsertDesc(sorted, Head(items), field), Tail(items), field)

\* sorted(d.items(), key=lambda x: x[1][field], reverse=True)
SortedDesc(items, field) == SortInto(<<>>, items, field)

\* items[:n], n >= 0
FirstN(items, n) == SubSeq(items, 1, IF n < Len(items) THEN n ELSE Len(items))

\* enumerate(items, 1), with the metric of each item
Enumerate(items, field) ==
    [i \in DOMAIN items |->
        [rank |-> i, user |-> items[i].user, value |-> items[i][field]]]

TopUserDamage(stats, n) == Enumerate(FirstN(SortedDesc(stats, "userDamage"), n), "userDamage")
TopBossDamage(stats, n) == Enumerate(FirstN(SortedDesc(stats, "bossDamage"), n), "bossDamage")

\* if team_skills: ... sorted_skills[:top_n]
TopSkills(skills, n) == Enumerate(FirstN(SortedDesc(skills, "count"), n), "count")

Rankings(stats, skills, n) ==
    [dealt |-> TopUserDamage(stats, n),
     taken |-> TopBossDamage(stats, n),
     skills |-> TopSkills(skills, n)]

\* f"{v:.1f}" of a float that is a whole number
Fixed1(v) == ToString(v) \o ".0"

DealtLine(e) == ToString(e.rank) \o ". " \o e.user \o "\tDamage Dealt: " \o Fixed1(e.value)
TakenLine(e) == ToString(e.rank) \o ". " \o e.user \o "\tDamage Taken: " \o Fixed1(e.value)
SkillLine(e) == ToString(e.rank) \o ". " \o e.user \o "\tSkills Cast: "
                    \o ToString(e.value) \o " times"

\* "\n".join(md): a line is one atom of text, an empty line is no text
RECURSIVE Join(_)
Join(lines) ==
    IF lines = <<>> THEN <<>>
    ELSE (IF Head(lines) = "" THEN <<>> ELSE <<Head(lines)>>)
         \o (IF Len(lines) = 1 THEN <<>> ELSE <<NL>> \o Join(Tail(lines)))

GenerateMarkdownReport(stats, period_start, period_end, n, skills) ==
    LET r == Rankings(stats, skills, n)
    IN  Join(<<"", "**Period:** " \o StrfDay(period_start) \o " -> " \o StrfDay(period_end),
               "", "### Top Damage Dealers">>
             \o [i \in DOMAIN r.dealt |-> DealtLine(r.dealt[i])]
             \o <<"", "### Top Damage Taken">>
             \o [i \in DOMAIN r.taken |-> TakenLine(r.taken[i])]
             \o (IF skills = <<>> THEN <<>>
                 ELSE <<"", "### Most Team Skills Cast">>
                      \o [i \in DOMAIN r.skills |-> SkillLine(r.skills[i])]))

\* full_podium_md = f"{markdown_report}\n\n{last_updated}\n\n---"
FullPodiumMd(report, t) ==
    report \o <<NL, NL, "_Last updated: " \o StrfMinute(t) \o " UTC_", NL, NL, "---">>

(***************************************************************************)
(* The variables by what they hold, and their values where a               *)
(* specification does not use them.                                        *)
(***************************************************************************)
pipelineVars == <<chat, since, recent_messages, recent_skill_msgs, now, user_stats,
                  team_skills, seven_days_ago, top_n, ranking>>
textVars == <<full_podium_md, description, new_description, merged_again>>
runVars == <<group_info, store, party_chat, clock, runs, log>>

\* top_n: int = 5
TopNDefault == 5

NoRanking == [dealt |-> <<>>, taken |-> <<>>, skills |-> <<>>]

NoLog == [warned |-> FALSE, chat_fetch_failed |-> FALSE, group_fetch_failed |-> FALSE,
          merge_computed |-> FALSE, update_invoked |-> FALSE, update_failed |-> FALSE]

NoGroupInfo == [kind |-> "none", id |-> "", description |-> <<>>]

IdlePipeline ==
    /\ chat = <<>>
    /\ since = 0
    /\ recent_messages = <<>>
    /\ recent_skill_msgs = <<>>
    /\ now = 0
    /\ user_stats = <<>>
    /\ team_skills = <<>>
    /\ seven_days_ago = 0
    /\ top_n = TopNDefault
    /\ ranking = NoRanking

IdleText ==
    /\ full_podium_md = <<>>
    /\ description = <<>>
    /\ new_description = <<>>
    /\ merged_again = <<>>

IdleRun ==
    /\ group_info = NoGroupInfo
    /\ store = <<>>
    /\ party_chat = <<>>
    /\ clock = FirstClock
    /\ runs = 0
    /\ log = NoLog

(***************************************************************************)
(* replace_podium_section as a function: a description and a podium body   *)
(* from bounded sets, merged once and then once more with the same body.   *)
(***************************************************************************)
header_marker == <<"#", "#", " ">>

DocPieces == {podium_header, header_marker, <<NL>>, <<"x">>}
BodyPieces == {header_marker, <<NL>>, <<"x">>, <<BS>>}

Documents == {Concat(ps) : ps \in SeqsUpTo(DocPieces, MaxDocPieces)}
Bodies == {Concat(ps) : ps \in SeqsUpTo(BodyPieces, MaxBodyPieces)}

InitMerge ==
    /\ pc = "merge"
    /\ description \in Documents
    /\ full_podium_md \in Bodies
    /\ new_description = <<>>
    /\ merged_again = <<>>
    /\ IdlePipeline
    /\ IdleRun

\* new_description = replace_podium_section(description, full_podium_md)
MergeOnce ==
    /\ pc = "merge"
    /\ IF ReplaceRaises(description, full_podium_md)
       THEN pc' = "raised" /\ UNCHANGED new_description
       ELSE /\ pc' = "merged"
            /\ new_description' = ReplacePodiumSection(description, full_podium_md)
    /\ log' = [log EXCEPT !.merge_computed = TRUE]
    /\ UNCHANGED <<full_podium_md, description, merged_again, pipelineVars,
                   group_info, store, party_chat, clock, runs>>

\* replace_podium_section(new_description, full_podium_md)
MergeAgain ==
    /\ pc = "merged"
    /\ IF ReplaceRaises(new_description, full_podium_md)
       THEN pc' = "raised_again" /\ UNCHANGED merged_again
       ELSE /\ pc' = "merged_again"
            /\ merged_again' = ReplacePodiumSection(new_description, full_podium_md)
    /\ UNCHANGED <<full_podium_md, description, new_description, pipelineVars, runVars>>

NextMerge == MergeOnce \/ MergeAgain

SpecMerge == InitMerge /\ [][NextMerge]_vars

\* C1: merging twice with the same body gives the text the first merge gave,
\* on the replace path and on the append path
C1_MergeIdempotent ==
    pc \in {"merged_again", "raised_again"}
        => pc = "merged_again" /\ merged_again = new_description

\* the section span of the trimmed description: from the first podium header
\* up to the next "\n## " or the end of text
SpanStart(d) == FindHeader(Strip(d), 1)
SpanEnd(d) == MatchEnd(Strip(d), SpanStart(d))
BeforeSpan(d) == SubSeq(Strip(d), 1, SpanStart(d) - 1)
AfterSpan(d) == SubSeq(Strip(d), SpanEnd(d), Len(Strip(d)))

IsPrefix(p, s) == Len(p) <= Len(s) /\ SubSeq(s, 1, Len(p)) = p
IsSuffix(p, s) == Len(p) <= Len(s) /\ SubSeq(s, Len(s) - Len(p) + 1, Len(s)) = p

\* C2: a merge changes the section span of the trimmed description only: the
\* text before the span and the text after it are in the result as they were
C2_MergeLocal ==
    (pc = "merged" /\ Search(Strip(description)))
        => /\ IsPrefix(BeforeSpan(description), new_description)
           /\ IsSuffix(AfterSpan(description), new_description)
           /\ Len(new_description)
                >= Len(BeforeSpan(description)) + Len(AfterSpan(description))

(***************************************************************************)
(* filter_recent_boss_messages as a function: a chat and a clock reading   *)
(* from bounded sets.                                                      *)
(***************************************************************************)
MaxFilterMsgs == 3
MaxTimestamp == 2

\* a timestamp past the last clock reading
FutureTimestamp == LastClock \div TicksPerMs + 1

Timestamps == 0..MaxTimestamp \cup {FutureTimestamp}

\* "" stands for a message whose info has no type
FilterMsgs ==
    {Msg(type, "a", ts, Num(1), Num(1), None) :
        type \in {"boss_damage", "spell_cast_party", ""}, ts \in Timestamps}

InitFilter ==
    /\ pc = "filter"
    /\ chat \in SeqsUpTo(FilterMsgs, MaxFilterMsgs)
    /\ clock \in FirstClock..LastClock
    /\ since = 0
    /\ recent_messages = <<>>
    /\ recent_skill_msgs = <<>>
    /\ now = 0
    /\ user_stats = <<>>
    /\ team_skills = <<>>
    /\ seven_days_ago = 0
    /\ top_n = TopNDefault
    /\ ranking = NoRanking
    /\ IdleText
    /\ group_info = NoGroupInfo
    /\ store = <<>>
    /\ party_chat = <<>>
    /\ runs = 0
    /\ log = NoLog

\* recent_messages = filter_recent_boss_messages(chat, days=7)
FilterRecent ==
    /\ pc = "filter"
    /\ since' = Since(clock, Days)
    /\ recent_messages' = FilterRecentBossMessages(chat, clock, Days)
    /\ pc' = "filtered"
    /\ UNCHANGED <<chat, recent_skill_msgs, now, user_stats, team_skills,
                   seven_days_ago, top_n, ranking, textVars, runVars>>

NextFilter == FilterRecent

SpecFilter == InitFilter /\ [][NextFilter]_vars

\* the k-th smallest member of a set of indices
Nth(S, k) == CHOOSE i \in S : Cardinality({j \in S : j < i}) = k - 1

\* the messages of the chat that are damage messages at or after the window start
Selected ==
    {i \in DOMAIN chat :
        /\ chat[i].type = "boss_damage"
        /\ chat[i].timestamp * TicksPerMs >= clock - Days * TicksPerDay}

\* C6: the filter returns exactly the boss_damage messages whose timestamp is
\* at or after the window start, in their input order: one at the start is
\* in, one a millisecond earlier is out, one after the window end is in
C6_WindowFilter ==
    pc = "filtered"
        => /\ Len(recent_messages) = Cardinality(Selected)
           /\ \A k \in DOMAIN recent_messages :
                recent_messages[k] = chat[Nth(Selected, k)]

C6_Witness ==
    /\ pc = "filtered"
    /\ \E i, j, k \in DOMAIN chat :
        /\ chat[i].type = "boss_damage"
        /\ FromTimestamp(chat[i].timestamp) = since
        /\ chat[i] \in {recent_messages[n] : n \in DOMAIN recent_messages}
        /\ chat[j].type = "boss_damage"
        /\ chat[j].timestamp = chat[i].timestamp - 1
        /\ chat[j] \notin {recent_messages[n] : n \in DOMAIN recent_messages}
        /\ chat[k].type = "boss_damage"
        /\ FromTimestamp(chat[k].timestamp) > clock
        /\ chat[k] \in {recent_messages[n] : n \in DOMAIN recent_messages}

(***************************************************************************)
(* aggregate_user_damage as a function: a list of damage messages from a   *)
(* bounded set.  A damage is missing, a string that is no number, 1, or    *)
(* the first float whose successor is 2 away (2^53 in CPython).            *)
(***************************************************************************)
MaxDamageMsgs == 3

BigDamage == Pow2(MantDig)

\* userDamage and bossDamage of a message
DamageFields ==
    {<<Num(1), Num(1)>>, <<Num(BigDamage), None>>, <<None, Num(1)>>,
     <<Str, Num(1)>>, <<Num(1), Str>>}

DamageMsgs ==
    {Msg("boss_damage", user, 0, f[1], f[2], None) :
        user \in {"", "a", "b"}, f \in DamageFields}

InitAggregate ==
    /\ pc = "filtered"
    /\ recent_messages \in SeqsUpTo(DamageMsgs, MaxDamageMsgs)
    /\ chat = <<>>
    /\ since = 0
    /\ recent_skill_msgs = <<>>
    /\ now = 0
    /\ user_stats = <<>>
    /\ team_skills = <<>>
    /\ seven_days_ago = 0
    /\ top_n = TopNDefault
    /\ ranking = NoRanking
    /\ IdleText
    /\ IdleRun

\* user_stats = aggregate_user_damage(recent_messages)
AggregateDamage ==
    /\ pc = "filtered"
    /\ user_stats' = AggregateUserDamage(recent_messages)
    /\ pc' = "aggregated"
    /\ UNCHANGED <<chat, since, recent_messages, recent_skill_msgs, now, team_skills,
                   seven_days_ago, top_n, ranking, textVars, runVars>>

NextAggregate == AggregateDamage

SpecAggregate == InitAggregate /\ [][NextAggregate]_vars

\* the users named by a list of messages
UsersOf(msgs) == {msgs[i].user : i \in DOMAIN msgs} \ {""}

\* the total of one user under a dict, 0 where the user is not in it
TotalOf(d, user, field) ==
    IF user \in Keys(d) THEN d[IndexOf(d, user)][field] ELSE 0

\* the float sum, in message order, of a user's numeric values of one field
RECURSIVE FieldSum(_, _, _, _)
FieldSum(acc, msgs, user, field) ==
    IF msgs = <<>> THEN acc
    ELSE LET m == Head(msgs)
             next == IF m.user = user /\ IsNumeric(m[field])
                     THEN FloatAdd(acc, Float(m[field])) ELSE acc
         IN  FieldSum(next, Tail(msgs), user, field)

\* C4: a damage that is no number is skipped for its field only: the other
\* field of the message still counts, whichever of the two is malformed, and
\* the user stays in the result
C4_FieldIsolation ==
    pc = "aggregated"
        => \A user \in UsersOf(recent_messages) :
            /\ user \in Keys(user_stats)
            /\ TotalOf(user_stats, user, "userDamage")
                 = FieldSum(0, recent_messages, user, "userDamage")
            /\ TotalOf(user_stats, user, "bossDamage")
                 = FieldSum(0, recent_messages, user, "bossDamage")

\* the messages of a list at the indices of I, in order
RECURSIVE Pick(_, _, _)
Pick(msgs, I, i) ==
    IF i > Len(msgs) THEN <<>>
    ELSE (IF i \in I THEN <<msgs[i]>> ELSE <<>>) \o Pick(msgs, I, i + 1)

Orderings(n) ==
    {p \in [1..n -> 1..n] : \A i, j \in 1..n : p[i] = p[j] => i = j}

\* two dicts hold the same users with the same totals
SameTotals(d, e) ==
    /\ Keys(d) = Keys(e)
    /\ \A user \in Keys(d) :
        /\ TotalOf(d, user, "userDamage") = TotalOf(e, user, "userDamage")
        /\ TotalOf(d, user, "bossDamage") = TotalOf(e, user, "bossDamage")

\* the totals of two parts added per user
SameAsSumOfParts(whole, d, e) ==
    /\ Keys(whole) = Keys(d) \cup Keys(e)
    /\ \A user \in Keys(whole) :
        /\ TotalOf(whole, user, "userDamage")
             = FloatAdd(TotalOf(d, user, "userDamage"), TotalOf(e, user, "userDamage"))
        /\ TotalOf(whole, user, "bossDamage")
             = FloatAdd(TotalOf(d, user, "bossDamage"), TotalOf(e, user, "bossDamage"))

\* C7 as stated: the totals of the whole list are the per-user sums of the
\* totals of its parts, however it is split, and do not depend on the order
C7_Additive ==
    pc = "aggregated"
        => /\ \A I \in SUBSET DOMAIN recent_messages :
                SameAsSumOfParts(user_stats,
                    AggregateUserDamage(Pick(recent_messages, I, 1)),
                    AggregateUserDamage(Pick(recent_messages, DOMAIN recent_messages \ I, 1)))
           /\ \A p \in Orderings(Len(recent_messages)) :
                SameTotals(user_stats,
                    AggregateUserDamage([i \in DOMAIN recent_messages |-> recent_messages[p[i]]]))

\* no sum of the list rounds: each user's numeric damages of a field add up
\* to at most 2^MantDig, below which every whole number is a float
RECURSIVE ExactSum(_, _, _)
ExactSum(msgs, user, field) ==
    IF msgs = <<>> THEN 0
    ELSE (IF Head(msgs).user = user /\ IsNumeric(Head(msgs)[field])
          THEN Head(msgs)[field][2] ELSE 0)
         + ExactSum(Tail(msgs), user, field)

NoRounding(msgs) ==
    \A user \in UsersOf(msgs) :
        /\ ExactSum(msgs, user, "userDamage") <= Pow2(MantDig)
        /\ ExactSum(msgs, user, "bossDamage") <= Pow2(MantDig)

\* C7, amended: the users of the whole list are those of its parts, however it
\* is split and ordered; and where no sum rounds, the totals of the whole are
\* the per-user sums of the totals of the parts and do not depend on the order
C7_AdditiveExact ==
    pc = "aggregated"
        => /\ \A I \in SUBSET DOMAIN recent_messages :
                LET d == AggregateUserDamage(Pick(recent_messages, I, 1))
                    e == AggregateUserDamage(
                            Pick(recent_messages, DOMAIN recent_messages \ I, 1))
                IN  /\ Keys(user_stats) = Keys(d) \cup Keys(e)
                    /\ NoRounding(recent_messages) => SameAsSumOfParts(user_stats, d, e)
           /\ \A p \in Orderings(Len(recent_messages)) :
                LET d == AggregateUserDamage(
                            [i \in DOMAIN recent_messages |-> recent_messages[p[i]]])
                IN  /\ Keys(user_stats) = Keys(d)
                    /\ NoRounding(recent_messages) => SameTotals(user_stats, d)

\* a list of three messages with a missing user, a malformed field and two
\* messages of one user, whose sums do not round
C7_Witness ==
    /\ pc = "aggregated"
    /\ Len(recent_messages) = MaxDamageMsgs
    /\ NoRounding(recent_messages)
    /\ \E i, j, k \in DOMAIN recent_messages :
        /\ i # j
        /\ recent_messages[i].user = "a"
        /\ recent_messages[j].user = "a"
        /\ recent_messages[i].userDamage = Num(1)
        /\ recent_messages[j].userDamage = Num(1)
        /\ recent_messages[j].bossDamage = Str
        /\ recent_messages[k].user = ""
    /\ TotalOf(user_stats, "a", "userDamage") = 2

(***************************************************************************)
(* The report of a chat: filter, aggregate, rank and render, for a chat    *)
(* from a bounded set and every top_n up to a bound.                       *)
(***************************************************************************)
MaxReportMsgs == 3
MaxTopN == 2

ReportMsgs ==
    {Msg("boss_damage", user, 0, f[1], f[2], None) :
        user \in {"a", "b", "c"}, f \in {<<Num(1), Num(2)>>, <<Num(2), Num(1)>>}}
    \cup {Msg("spell_cast_party", user, 0, None, None, times) :
        user \in {"a", "b"}, times \in {None, Num(2)}}

InitReport ==
    /\ pc = "filter"
    /\ chat \in SeqsUpTo(ReportMsgs, MaxReportMsgs)
    /\ top_n \in 0..MaxTopN
    /\ since = 0
    /\ recent_messages = <<>>
    /\ recent_skill_msgs = <<>>
    /\ now = 0
    /\ user_stats = <<>>
    /\ team_skills = <<>>
    /\ seven_days_ago = 0
    /\ ranking = NoRanking
    /\ IdleText
    /\ IdleRun

\* now = datetime.now(); seven_days_ago = now - timedelta(days=7);
\* recent_skill_msgs = [...]; team_skills = aggregate_team_skills(recent_skill_msgs)
AggregateSkills ==
    /\ pc = "aggregated"
    /\ now' = clock
    /\ seven_days_ago' = Since(clock, Days)
    /\ recent_skill_msgs' = FilterType(chat, "spell_cast_party", Since(clock, Days))
    /\ IF SkillsRaises(recent_skill_msgs')
       THEN pc' = "raised" /\ UNCHANGED team_skills
       ELSE pc' = "skills" /\ team_skills' = AggregateTeamSkills(recent_skill_msgs')
    /\ UNCHANGED <<chat, since, recent_messages, user_stats, top_n, ranking,
                   textVars, runVars>>

\* markdown_report = generate_markdown_report(user_stats, seven_days_ago, now,
\* team_skills=team_skills); full_podium_md = ...
GenerateReport ==
    /\ pc = "skills"
    /\ ranking' = Rankings(user_stats, team_skills, top_n)
    /\ full_podium_md' =
        FullPodiumMd(
            GenerateMarkdownReport(user_stats, seven_days_ago, now, top_n, team_skills),
            now)
    /\ pc' = "report"
    /\ UNCHANGED <<chat, since, recent_messages, recent_skill_msgs, now, user_stats,
                   team_skills, seven_days_ago, top_n, description, new_description,
                   merged_again, runVars>>

NextReport == FilterRecent \/ AggregateDamage \/ AggregateSkills \/ GenerateReport

SpecReport == InitReport /\ [][NextReport]_vars

\* the index of the first message of a list that names the user
FirstSeen(msgs, user) == Min({i \in DOMAIN msgs : msgs[i].user = user})

\* a ranked list of the report against the dict it ranks and the messages the
\* dict was built from
RankedRight(list, d, field, msgs) ==
    /\ Len(list) = (IF top_n < Len(d) THEN top_n ELSE Len(d))
    /\ \A i \in DOMAIN list :
        /\ list[i].rank = i
        /\ list[i].user \in Keys(d)
        /\ list[i].value = d[IndexOf(d, list[i].user)][field]
    /\ \A i, j \in DOMAIN list :
        i < j => /\ list[i].user # list[j].user
                 /\ list[i].value >= list[j].value
                 /\ list[i].value = list[j].value
                        => FirstSeen(msgs, list[i].user) < FirstSeen(msgs, list[j].user)
    /\ \A k \in DOMAIN d :
        d[k].user \notin {list[i].user : i \in DOMAIN list}
            => \A i \in DOMAIN list :
                /\ list[i].value >= d[k][field]
                /\ list[i].value = d[k][field]
                        => FirstSeen(msgs, list[i].user) < FirstSeen(msgs, d[k].user)

\* C8: each ranked list of the report is in descending order of its metric,
\* holds the top_n highest entries (all of them if there are fewer), is
\* numbered from 1, and puts equals in the order the filtered messages first
\* named them
C8_Ranking ==
    pc = "report"
        => /\ RankedRight(ranking.dealt, user_stats, "userDamage", recent_messages)
           /\ RankedRight(ranking.taken, user_stats, "bossDamage", recent_messages)
           /\ RankedRight(ranking.skills, team_skills, "count", recent_skill_msgs)

\* a report of three users cut to the top two: the sort moved the second user
\* of the dict to the top, and of the two users with equal damage the one the
\* messages named first stays in the list
C8_Witness ==
    /\ pc = "report"
    /\ top_n = 2
    /\ Len(user_stats) = 3
    /\ user_stats[1].userDamage = user_stats[3].userDamage
    /\ ranking.dealt[1].user = user_stats[2].user
    /\ ranking.dealt[2].user = user_stats[1].user
    /\ ranking.dealt[1].value > ranking.dealt[2].value

(***************************************************************************)
(* main(): runs of the program against the party's chat and description.   *)
(* The chat grows and the clock advances at any time; a request to         *)
(* Habitica succeeds or raises requests.RequestException.                  *)
(***************************************************************************)
MaxChatMsgs == 2
MaxRuns == 2

MainMsgs ==
    {Msg("boss_damage", user, ts, Num(1), Num(1), None) :
        user \in {"a", "b"}, ts \in {0, 1}}
    \cup {Msg("spell_cast_party", "a", ts, None, None, times) :
        ts \in {0, 1}, times \in {None, Str}}

StoredDescriptions ==
    {<<>>, <<"x">>, podium_header \o <<NL, "x">>}

Init ==
    /\ pc = "fetch_chat"
    /\ party_chat \in SeqsUpTo(MainMsgs, MaxChatMsgs - 1)
    /\ store \in StoredDescriptions
    /\ clock = FirstClock
    /\ runs = 1
    /\ group_info = NoGroupInfo
    /\ log = NoLog
    /\ IdlePipeline
    /\ IdleText

Warn(l) == [l EXCEPT !.warned = TRUE]

\* a message is posted to the party chat
PostMessage ==
    /\ Len(party_chat) < MaxChatMsgs
    /\ \E m \in MainMsgs : party_chat' = Append(party_chat, m)
    /\ UNCHANGED <<pc, pipelineVars, textVars, group_info, store, clock, runs, log>>

\* time passes
Tick ==
    /\ clock < LastClock
    /\ clock' = clock + 1
    /\ UNCHANGED <<pc, pipelineVars, textVars, group_info, store, party_chat, runs, log>>

\* chat = fetch_party_chat(); if not chat: print warning; return
FetchPartyChat ==
    /\ pc = "fetch_chat"
    /\ chat' = party_chat
    /\ IF party_chat = <<>>
       THEN pc' = "done" /\ log' = Warn(log)
       ELSE pc' = "filter" /\ UNCHANGED log
    /\ UNCHANGED <<since, recent_messages, recent_skill_msgs, now, user_stats,
                   team_skills, seven_days_ago, top_n, ranking, textVars,
                   group_info, store, party_chat, clock, runs>>

\* fetch_party_chat() catches the RequestException, warns and returns []
FetchPartyChatFails ==
    /\ pc = "fetch_chat"
    /\ chat' = <<>>
    /\ pc' = "done"
    /\ log' = [Warn(log) EXCEPT !.chat_fetch_failed = TRUE]
    /\ UNCHANGED <<since, recent_messages, recent_skill_msgs, now, user_stats,
                   team_skills, seven_days_ago, top_n, ranking, textVars,
                   group_info, store, party_chat, clock, runs>>

\* if not recent_messages: print warning; return
NoRecentMessages ==
    /\ pc = "filtered"
    /\ recent_messages = <<>>
    /\ pc' = "done"
    /\ log' = Warn(log)
    /\ UNCHANGED <<pipelineVars, textVars, group_info, store, party_chat, clock, runs>>

\* user_stats = aggregate_user_damage(recent_messages)
MainAggregateDamage ==
    /\ recent_messages # <<>>
    /\ AggregateDamage

\* group_info = fetch_group_info()
FetchGroupInfo ==
    /\ pc = "report"
    /\ \E id \in {"g", ""} :
        group_info' = [kind |-> "dict", id |-> id, description |-> store]
    /\ pc' = "read_group"
    /\ UNCHANGED <<pipelineVars, textVars, store, party_chat, clock, runs, log>>

\* fetch_group_info() catches the RequestException, warns and returns []
FetchGroupInfoFails ==
    /\ pc = "report"
    /\ group_info' = [kind |-> "list", id |-> "", description |-> <<>>]
    /\ pc' = "read_group"
    /\ log' = [Warn(log) EXCEPT !.group_fetch_failed = TRUE]
    /\ UNCHANGED <<pipelineVars, textVars, store, party_chat, clock, runs>>

\* a guard that lets a record with only one of the two through
MissingGroup_Both(group_id, descr) == group_id = "" /\ descr = <<>>

\* if not group_id or not description
MissingGroup(group_id, descr) == group_id = "" \/ descr = <<>>

\* group_data = group_info.get("data", {}): a list has no get, AttributeError.
\* Then group_id, description, and the return with a warning if one is missing
ReadGroupInfo ==
    /\ pc = "read_group"
    /\ IF group_info.kind = "list"
       THEN pc' = "raised" /\ UNCHANGED <<description, log>>
       ELSE /\ description' = group_info.description
            /\ IF MissingGroup(group_info.id, group_info.description)
               THEN pc' = "done" /\ log' = Warn(log)
               ELSE pc' = "merge" /\ UNCHANGED log
    /\ UNCHANGED <<pipelineVars, full_podium_md, new_description, merged_again,
                   group_info, store, party_chat, clock, runs>>

\* a comparison of the texts as they are
NeedsUpdate_Untrimmed(new, old) == new # old

\* if new_description.strip() != description.strip()
NeedsUpdate(new, old) == Strip(new) # Strip(old)

\* else: print "already up-to-date"
UpToDate ==
    /\ pc = "merged"
    /\ ~NeedsUpdate(new_description, description)
    /\ pc' = "done"
    /\ UNCHANGED <<pipelineVars, textVars, runVars>>

\* update_group_description(group_id, new_description): the PUT succeeds
UpdateGroupDescription ==
    /\ pc = "merged"
    /\ NeedsUpdate(new_description, description)
    /\ store' = new_description
    /\ log' = [log EXCEPT !.update_invoked = TRUE]
    /\ pc' = "done"
    /\ UNCHANGED <<pipelineVars, textVars, group_info, party_chat, clock, runs>>

\* update_group_description catches the RequestException and warns
UpdateGroupDescriptionFails ==
    /\ pc = "merged"
    /\ NeedsUpdate(new_description, description)
    /\ log' = [Warn(log) EXCEPT !.update_invoked = TRUE, !.update_failed = TRUE]
    /\ pc' = "done"
    /\ UNCHANGED <<pipelineVars, textVars, group_info, store, party_chat, clock, runs>>

\* the program is started again
NextRun ==
    /\ pc \in {"done", "raised"}
    /\ runs < MaxRuns
    /\ runs' = runs + 1
    /\ pc' = "fetch_chat"
    /\ group_info' = NoGroupInfo
    /\ log' = NoLog
    /\ chat' = <<>>
    /\ since' = 0
    /\ recent_messages' = <<>>
    /\ recent_skill_msgs' = <<>>
    /\ now' = 0
    /\ user_stats' = <<>>
    /\ team_skills' = <<>>
    /\ seven_days_ago' = 0
    /\ ranking' = NoRanking
    /\ full_podium_md' = <<>>
    /\ description' = <<>>
    /\ new_description' = <<>>
    /\ UNCHANGED <<top_n, merged_again>>
    /\ UNCHANGED <<store, party_chat, clock>>

Next ==
    \/ PostMessage
    \/ Tick
    \/ FetchPartyChat
    \/ FetchPartyChatFails
    \/ FilterRecent
    \/ NoRecentMessages
    \/ MainAggregateDamage
    \/ AggregateSkills
    \/ GenerateReport
    \/ FetchGroupInfo
    \/ FetchGroupInfoFails
    \/ ReadGroupInfo
    \/ MergeOnce
    \/ UpToDate
    \/ UpdateGroupDescription
    \/ UpdateGroupDescriptionFails
    \/ NextRun

Spec == Init /\ [][Next]_vars

\* the run has ended: main() returned or an exception ended it
RunEnded == pc \in {"done", "raised"}

\* C3: a run calls update_group_description exactly if it reached the merge
\* and the merged description differs from the fetched one after trimming both
C3_NoOpDetection ==
    /\ log.update_invoked
        => log.merge_computed /\ Strip(new_description) # Strip(description)
    /\ (RunEnded /\ log.merge_computed /\ Strip(new_description) # Strip(description))
        => log.update_invoked

\* a run that merged, got a text that differs from the fetched description
\* in its trailing newlines only, and made no update call
C3_Witness ==
    /\ pc = "done"
    /\ log.merge_computed
    /\ new_description # description
    /\ Strip(new_description) = Strip(description)
    /\ ~log.update_invoked

\* C5: when the fetch of the chat or of the group fails, the run ends with a
\* warning, computes no merge, makes no update call and raises nothing
C5_FetchFailureAborts ==
    (log.chat_fetch_failed \/ log.group_fetch_failed)
        => /\ log.warned
           /\ ~log.merge_computed
           /\ ~log.update_invoked
           /\ pc # "raised"

\* the fetched chat is empty
EmptyChat == pc # "fetch_chat" /\ chat = <<>>

\* the filter has run and no damage message passed it
NoDamageInWindow ==
    pc \notin {"fetch_chat", "filter"} /\ chat # <<>> /\ recent_messages = <<>>

\* the fetched group record lacks its id or a non-empty description
GroupRecordIncomplete ==
    group_info.kind = "dict" /\ (group_info.id = "" \/ group_info.description = <<>>)

\* C9: a run with an empty chat, with no damage message in the window or with
\* a group record that lacks its id or description ends with a warning, makes
\* no update call and computes no merge
C9_EarlyAbort ==
    /\ EmptyChat => pc = "done"
    /\ NoDamageInWindow => pc \in {"filtered", "done"}
    /\ GroupRecordIncomplete => pc \in {"read_group", "done"}
    /\ (EmptyChat \/ NoDamageInWindow \/ GroupRecordIncomplete)
        => /\ ~log.update_invoked
           /\ ~log.merge_computed
           /\ pc = "done" => log.warned

\* a run that ended at a group record with a description and no id
C9_Witness ==
    /\ pc = "done"
    /\ group_info.kind = "dict"
    /\ group_info.id = ""
    /\ group_info.description # <<>>
    /\ recent_skill_msgs # <<>>
    /\ log.warned
    /\ ~log.merge_computed

\* C10: the damage filter and the skill filter of a run use the same window
\* start, which is the period start of the report: a damage message at a
\* timestamp is selected exactly if a skill message at it would be
C10_SameWindow ==
    pc \in {"skills", "report"}
        => \A ts \in 0..(LastClock \div TicksPerMs + 1) :
            (FromTimestamp(ts) >= since) <=> (FromTimestamp(ts) >= seven_days_ago)

====
